---- MODULE Spec2Model ----
(***************************************************************************)
(* Model of the Vulkan bring-up pipeline of VulkanEngine/main.cpp: the     *)
(* Framework object, the ordered initialisation stages, teardown, and the  *)
(* capability-negotiation functions (queue family scan, device selection,  *)
(* swapchain format / presentation mode / extent / image count).           *)
(***************************************************************************)
EXTENDS Integers, Sequences, FiniteSets, TLC

VARIABLES
    pc,                     \* position of the process (stage of run(), or call/return of a function)
    enableValidationLayers, \* build-time flag (NDEBUG)
    gpus,                   \* driver: the physical devices, in enumeration order
    engine,                 \* the Framework object's fields
    procAddrLoaded,         \* driver: debug-utils entry points resolvable on the instance
    createdLog,             \* driver: resources created, in order
    destroyedLog,           \* driver: resources destroyed, in order
    stagesRun,              \* stages of run() entered, in order
    exception,              \* what() of the exception in flight or caught ("" if none)
    exitStatus,             \* return value of main (NotExited while running)
    requested,              \* driver: the create-infos passed to vkCreateDevice / vkCreateSwapchainKHR
    fn,                     \* function under call (function-level specifications)
    input,                  \* its argument
    output                  \* its return value

vars == <<pc, enableValidationLayers, gpus, engine, procAddrLoaded, createdLog,
          destroyedLog, stagesRun, exception, exitStatus, requested, fn, input,
          output>>

----------------------------------------------------------------------------
(* Bounds of the model *)
MaxFamilies == 3
MaxDevices == 2
MaxFormats == 3
MaxModes == 3
MaxCount == 5
MaxImages == 3

(* Program constants *)
WINDOW_WIDTH == 800
WINDOW_HEIGHT == 600
(* TLC's integers are 32-bit signed, so 2^32 - 1 cannot be written. uint32_t is
   modelled as an unsigned word of 16 bits: UINT32_MAX is the all-ones
   word, and arithmetic wraps modulo UINT32_MAX + 1 exactly as in the code. *)
UINT32_MAX == 65535
VK_NULL_HANDLE == 0
EXIT_SUCCESS == 0
EXIT_FAILURE == 1
NotExited == -1

Uint32(n) == n % (UINT32_MAX + 1)

deviceExtensions == <<"VK_KHR_swapchain">>
validationLayers == <<"VK_LAYER_KHRONOS_validation">>

Range(s) == {s[k] : k \in 1..Len(s)}
SeqsUpTo(S, n) == UNION {[1..k -> S] : k \in 0..n}
Min2(a, b) == IF b < a THEN b ELSE a
Max2(a, b) == IF a < b THEN b ELSE a

----------------------------------------------------------------------------
(* std::optional<uint32_t> *)
nullopt == [has_value |-> FALSE, value |-> 0]
Some(i) == [has_value |-> TRUE, value |-> i]

IsComplete(indices) ==
    indices.graphicsFamily.has_value /\ indices.presentationFamily.has_value

(* One iteration of the scan of findQueueFamilies, then the rest of the loop.
   queueFamilies[i+1] is the family with index i: its graphics flag is
   queueFlags & VK_QUEUE_GRAPHICS_BIT, its present flag the answer of
   vkGetPhysicalDeviceSurfaceSupportKHR for index i. *)
RECURSIVE ScanQueueFamilies(_, _, _)
ScanQueueFamilies(queueFamilies, i, indices) ==
    IF i >= Len(queueFamilies) THEN indices
    ELSE LET queueFamily == queueFamilies[i + 1]
             afterGraphics ==
                 IF queueFamily.graphics
                 THEN [indices EXCEPT !.graphicsFamily = Some(i)]
                 ELSE indices
         IN  IF IsComplete(afterGraphics) THEN afterGraphics
             ELSE LET afterPresent ==
                          IF queueFamily.present
                          THEN [afterGraphics EXCEPT !.presentationFamily = Some(i)]
                          ELSE afterGraphics
                  IN  ScanQueueFamilies(queueFamilies, i + 1, afterPresent)

(* Variant: a recorded index is kept (first fit per capability). *)
RECURSIVE ScanQueueFamilies_FirstFit(_, _, _)
ScanQueueFamilies_FirstFit(queueFamilies, i, indices) ==
    IF i >= Len(queueFamilies) \/ IsComplete(indices) THEN indices
    ELSE LET queueFamily == queueFamilies[i + 1]
             afterGraphics ==
                 IF queueFamily.graphics /\ ~indices.graphicsFamily.has_value
                 THEN [indices EXCEPT !.graphicsFamily = Some(i)]
                 ELSE indices
             afterPresent ==
                 IF queueFamily.present /\ ~indices.presentationFamily.has_value
                 THEN [afterGraphics EXCEPT !.presentationFamily = Some(i)]
                 ELSE afterGraphics
         IN  ScanQueueFamilies_FirstFit(queueFamilies, i + 1, afterPresent)

findQueueFamilies_FirstFit(queueFamilies) ==
    ScanQueueFamilies_FirstFit(queueFamilies, 0,
                               [graphicsFamily |-> nullopt,
                                presentationFamily |-> nullopt])

(* Variant: the scan stops as soon as a graphics family is recorded. *)
RECURSIVE ScanQueueFamilies_BreakOnGraphics(_, _, _)
ScanQueueFamilies_BreakOnGraphics(queueFamilies, i, indices) ==
    IF i >= Len(queueFamilies) THEN indices
    ELSE LET queueFamily == queueFamilies[i + 1]
             afterGraphics ==
                 IF queueFamily.graphics
                 THEN [indices EXCEPT !.graphicsFamily = Some(i)]
                 ELSE indices
         IN  IF afterGraphics.graphicsFamily.has_value THEN afterGraphics
             ELSE LET afterPresent ==
                          IF queueFamily.present
                          THEN [afterGraphics EXCEPT !.presentationFamily = Some(i)]
                          ELSE afterGraphics
                  IN  ScanQueueFamilies_BreakOnGraphics(queueFamilies, i + 1,
                                                        afterPresent)

findQueueFamilies_BreakOnGraphics(queueFamilies) ==
    ScanQueueFamilies_BreakOnGraphics(queueFamilies, 0,
                                      [graphicsFamily |-> nullopt,
                                       presentationFamily |-> nullopt])

findQueueFamilies(queueFamilies) ==
    ScanQueueFamilies(queueFamilies, 0,
                      [graphicsFamily |-> nullopt, presentationFamily |-> nullopt])

----------------------------------------------------------------------------
(* Swapchain negotiation *)
PreferredFormat == [format |-> "B8G8R8A8_SRGB", colorSpace |-> "SRGB_NONLINEAR"]

RECURSIVE FirstPreferredFormat(_, _)
FirstPreferredFormat(availableFormats, k) ==
    IF k > Len(availableFormats) THEN 0
    ELSE IF /\ availableFormats[k].format = "B8G8R8A8_SRGB"
            /\ availableFormats[k].colorSpace = "SRGB_NONLINEAR"
         THEN k
         ELSE FirstPreferredFormat(availableFormats, k + 1)

(* Variant: the colour space is not compared. *)
chooseSwapSurfaceFormat_FormatOnly(availableFormats) ==
    LET hits == {k \in 1..Len(availableFormats) :
                    availableFormats[k].format = "B8G8R8A8_SRGB"}
    IN  IF hits # {}
        THEN availableFormats[CHOOSE k \in hits : \A j \in hits : k <= j]
        ELSE availableFormats[1]

chooseSwapSurfaceFormat(availableFormats) ==
    LET k == FirstPreferredFormat(availableFormats, 1)
    IN  IF k # 0 THEN availableFormats[k] ELSE availableFormats[1]

RECURSIVE FirstMailbox(_, _)
FirstMailbox(availablePresentationModes, k) ==
    IF k > Len(availablePresentationModes) THEN 0
    ELSE IF availablePresentationModes[k] = "MAILBOX" THEN k
         ELSE FirstMailbox(availablePresentationModes, k + 1)

(* Variant: only the first mode is examined. *)
chooseSwapPresentationMode_FirstOnly(availablePresentationModes) ==
    IF /\ Len(availablePresentationModes) > 0
       /\ availablePresentationModes[1] = "MAILBOX"
    THEN "MAILBOX"
    ELSE "FIFO"

chooseSwapPresentationMode(availablePresentationModes) ==
    LET k == FirstMailbox(availablePresentationModes, 1)
    IN  IF k # 0 THEN availablePresentationModes[k] ELSE "FIFO"

(* Variant: the window size is capped at the maximum but not raised to the
   minimum. *)
chooseSwapExtent_NoMinimum(capabilities) ==
    IF capabilities.currentExtent.width # UINT32_MAX
    THEN capabilities.currentExtent
    ELSE [width  |-> Min2(capabilities.maxImageExtent.width, Uint32(WINDOW_WIDTH)),
          height |-> Min2(capabilities.maxImageExtent.height, Uint32(WINDOW_HEIGHT))]

chooseSwapExtent(capabilities) ==
    IF capabilities.currentExtent.width # UINT32_MAX
    THEN capabilities.currentExtent
    ELSE [width  |-> Max2(capabilities.minImageExtent.width,
                          Min2(capabilities.maxImageExtent.width, Uint32(WINDOW_WIDTH))),
          height |-> Max2(capabilities.minImageExtent.height,
                          Min2(capabilities.maxImageExtent.height, Uint32(WINDOW_HEIGHT)))]

(* uint32_t imageCount = minImageCount + 1, capped by a nonzero maxImageCount *)
swapImageCount(capabilities) ==
    LET imageCount == Uint32(capabilities.minImageCount + 1)
    IN  IF capabilities.maxImageCount > 0 /\ imageCount > capabilities.maxImageCount
        THEN capabilities.maxImageCount
        ELSE imageCount

----------------------------------------------------------------------------
(* Input domains *)
QueueFamily == [graphics : BOOLEAN, present : BOOLEAN]
QueueFamilyLists == SeqsUpTo(QueueFamily, MaxFamilies)

SurfaceFormat == [format : {"B8G8R8A8_SRGB", "B8G8R8A8_UNORM"},
                  colorSpace : {"SRGB_NONLINEAR", "EXTENDED_SRGB_LINEAR"}]
FormatLists == SeqsUpTo(SurfaceFormat, MaxFormats) \ {<<>>}

PresentMode == {"IMMEDIATE", "MAILBOX", "FIFO", "FIFO_RELAXED"}
ModeLists == SeqsUpTo(PresentMode, MaxModes)

Extent(w, h) == [width |-> w, height |-> h]
DefaultCounts == [minImageCount |-> 2, maxImageCount |-> 0]

(* Surface capability snapshots. The extent bounds form an interval on each
   axis (minImageExtent <= maxImageExtent); currentExtent is any pair. *)
ExtentCapabilities ==
    {c \in [currentExtent : [width : {UINT32_MAX, 640}, height : {UINT32_MAX, 480}],
            minImageExtent : [width : {1, 400, 1000}, height : {1, 300, 700}],
            maxImageExtent : [width : {640, 1920}, height : {480, 1080}],
            minImageCount : {DefaultCounts.minImageCount},
            maxImageCount : {DefaultCounts.maxImageCount}] :
        /\ c.minImageExtent.width <= c.maxImageExtent.width
        /\ c.minImageExtent.height <= c.maxImageExtent.height}

(* maxImageCount is 0 (no limit) or an upper bound at least minImageCount. *)
CountValues == 0..MaxCount \cup {UINT32_MAX - 1, UINT32_MAX}
CountCapabilities ==
    {c \in [currentExtent : {Extent(WINDOW_WIDTH, WINDOW_HEIGHT)},
            minImageExtent : {Extent(1, 1)},
            maxImageExtent : {Extent(4096, 4096)},
            minImageCount : CountValues,
            maxImageCount : CountValues] :
        c.maxImageCount = 0 \/ c.minImageCount <= c.maxImageCount}

----------------------------------------------------------------------------
(* The Framework object after construction: physicalDevice = VK_NULL_HANDLE,
   the vectors empty, the other handles not yet set. *)
NoQueue == [queueFamilyIndex |-> -1, queueIndex |-> -1]
NoFormat == ""
EngineInit ==
    [window |-> VK_NULL_HANDLE, instance |-> VK_NULL_HANDLE,
     debugMessenger |-> VK_NULL_HANDLE, surface |-> VK_NULL_HANDLE,
     physicalDevice |-> VK_NULL_HANDLE, device |-> VK_NULL_HANDLE,
     graphicsQueue |-> NoQueue, presentationQueue |-> NoQueue,
     swapChain |-> VK_NULL_HANDLE, swapChainImages |-> <<>>,
     swapChainImageFormat |-> NoFormat, swapChainExtent |-> Extent(0, 0),
     swapChainImageViews |-> <<>>]

NoRequests == [queueCreateInfos |-> <<>>, swapchainCreateInfos |-> <<>>]

ProgramInit ==
    /\ engine = EngineInit
    /\ procAddrLoaded = FALSE
    /\ createdLog = <<>>
    /\ destroyedLog = <<>>
    /\ stagesRun = <<>>
    /\ exception = ""
    /\ exitStatus = NotExited
    /\ requested = NoRequests

ProgramUnchanged ==
    UNCHANGED <<enableValidationLayers, gpus, engine, procAddrLoaded, createdLog,
                destroyedLog, stagesRun, exception, exitStatus, requested>>

----------------------------------------------------------------------------
(* Function-level specification: each negotiation function applied to an
   input drawn from its domain. *)
InitCalls ==
    /\ ProgramInit
    /\ enableValidationLayers = TRUE
    /\ gpus = <<>>
    /\ pc = "call"
    /\ output = <<>>
    /\ \/ fn = "findQueueFamilies" /\ input \in QueueFamilyLists
       \/ fn = "chooseSwapSurfaceFormat" /\ input \in FormatLists
       \/ fn = "chooseSwapPresentationMode" /\ input \in ModeLists
       \/ fn = "chooseSwapExtent" /\ input \in ExtentCapabilities
       \/ fn = "swapImageCount" /\ input \in CountCapabilities

Return(v) ==
    /\ pc' = "return"
    /\ output' = v
    /\ UNCHANGED <<fn, input>>
    /\ ProgramUnchanged

Call_findQueueFamilies ==
    /\ pc = "call" /\ fn = "findQueueFamilies"
    /\ Return(findQueueFamilies(input))

Call_chooseSwapSurfaceFormat ==
    /\ pc = "call" /\ fn = "chooseSwapSurfaceFormat"
    /\ Return(chooseSwapSurfaceFormat(input))

Call_chooseSwapPresentationMode ==
    /\ pc = "call" /\ fn = "chooseSwapPresentationMode"
    /\ Return(chooseSwapPresentationMode(input))

Call_chooseSwapExtent ==
    /\ pc = "call" /\ fn = "chooseSwapExtent"
    /\ Return(chooseSwapExtent(input))

Call_swapImageCount ==
    /\ pc = "call" /\ fn = "swapImageCount"
    /\ Return(swapImageCount(input))

NextCalls ==
    \/ Call_findQueueFamilies
    \/ Call_chooseSwapSurfaceFormat
    \/ Call_chooseSwapPresentationMode
    \/ Call_chooseSwapExtent
    \/ Call_swapImageCount

SpecCalls == InitCalls /\ [][NextCalls]_vars

Returned(f) == pc = "return" /\ fn = f

----------------------------------------------------------------------------
(* Device selection *)
checkDeviceExtensionSupport(device) ==
    Range(deviceExtensions) \ Range(device.extensions) = {}

querySwapChainSupport(device) ==
    [surfaceCapabilities |-> device.surfaceCapabilities,
     surfaceFormats |-> device.surfaceFormats,
     presentationModes |-> device.presentationModes]

isDeviceSuitable(device) ==
    LET indices == findQueueFamilies(device.queueFamilies)
        supportedExtensions == checkDeviceExtensionSupport(device)
        isSwapChainAdequate ==
            IF supportedExtensions
            THEN LET swapChainSupport == querySwapChainSupport(device)
                 IN  /\ swapChainSupport.surfaceFormats # <<>>
                     /\ swapChainSupport.presentationModes # <<>>
            ELSE FALSE
    IN  IsComplete(indices) /\ supportedExtensions /\ isSwapChainAdequate

(* Variant: the loop does not break at the first suitable device. *)
RECURSIVE SelectLoop_NoBreak(_, _, _)
SelectLoop_NoBreak(devices, k, selected) ==
    IF k > Len(devices) THEN selected
    ELSE SelectLoop_NoBreak(devices, k + 1,
                            IF isDeviceSuitable(devices[k]) THEN k ELSE selected)

(* The loop of selectPhysicalDevice over devices[k..]: the handle of a device
   is its position in the enumeration; selected is the value of the
   physicalDevice field, left as it is when no device is suitable. *)
RECURSIVE SelectLoop(_, _, _)
SelectLoop(devices, k, selected) ==
    IF k > Len(devices) THEN selected
    ELSE IF isDeviceSuitable(devices[k]) THEN k
         ELSE SelectLoop(devices, k + 1, selected)

isValidationLayerSupported(availableLayers) ==
    \A k \in 1..Len(validationLayers) :
        \E j \in 1..Len(availableLayers) : availableLayers[j] = validationLayers[k]

----------------------------------------------------------------------------
(* The stages of run(), in order, and the exception path to main's handler *)
InitStages == <<"createInstance", "createDebugMessenger", "createSurface",
                "selectPhysicalDevice", "createLogicalDevice", "createSwapChain",
                "createImageViews">>
RunStages == <<"initWindow">> \o InitStages \o <<"mainLoop", "cleanup">>

Enter(stage) == stagesRun' = Append(stagesRun, stage)

Throw(what) ==
    /\ pc' = "catch"
    /\ exception' = what

Goto(next) ==
    /\ pc' = next
    /\ UNCHANGED exception

Repeat(x, n) == [k \in 1..n |-> x]

CallsUnchanged == UNCHANGED <<fn, input, output>>

initWindow ==
    /\ pc = "initWindow"
    /\ Enter("initWindow")
    /\ \E created \in BOOLEAN :
          IF created
          THEN /\ engine' = [engine EXCEPT !.window = 1]
               /\ createdLog' = Append(createdLog, "window")
          ELSE /\ engine' = [engine EXCEPT !.window = VK_NULL_HANDLE]
               /\ UNCHANGED createdLog
    /\ Goto("createInstance")
    /\ UNCHANGED <<enableValidationLayers, gpus, procAddrLoaded, destroyedLog,
                   exitStatus, requested>>
    /\ CallsUnchanged

(* vkGetInstanceProcAddr resolves the create and the destroy entry point of the
   debug-utils extension together: both or neither (procAddrLoaded), and
   neither when the extension was not requested (validation disabled). *)
createInstance ==
    /\ pc = "createInstance"
    /\ Enter("createInstance")
    /\ \E availableLayers \in SeqsUpTo({"VK_LAYER_KHRONOS_validation",
                                        "VK_LAYER_LUNARG_api_dump"}, 1),
          result \in {"VK_SUCCESS", "VK_ERROR_INCOMPATIBLE_DRIVER"},
          loaded \in BOOLEAN :
          IF enableValidationLayers /\ ~isValidationLayerSupported(availableLayers)
          THEN /\ Throw("validation layers requested, but not available!")
               /\ UNCHANGED <<engine, createdLog, procAddrLoaded>>
          ELSE IF result # "VK_SUCCESS"
          THEN /\ Throw("failed to create instance!")
               /\ UNCHANGED <<engine, createdLog, procAddrLoaded>>
          ELSE /\ engine' = [engine EXCEPT !.instance = 1]
               /\ createdLog' = Append(createdLog, "instance")
               /\ procAddrLoaded' = (enableValidationLayers /\ loaded)
               /\ Goto("createDebugMessenger")
    /\ UNCHANGED <<enableValidationLayers, gpus, destroyedLog, exitStatus, requested>>
    /\ CallsUnchanged

createDebugMessenger ==
    /\ pc = "createDebugMessenger"
    /\ Enter("createDebugMessenger")
    /\ IF ~enableValidationLayers
       THEN /\ Goto("createSurface")
            /\ UNCHANGED <<engine, createdLog>>
       ELSE \E result \in {"VK_SUCCESS", "VK_ERROR_OUT_OF_HOST_MEMORY"} :
               IF procAddrLoaded /\ result = "VK_SUCCESS"
               THEN /\ engine' = [engine EXCEPT !.debugMessenger = 1]
                    /\ createdLog' = Append(createdLog, "debugMessenger")
                    /\ Goto("createSurface")
               ELSE /\ Throw("failed to set up debug messenger!")
                    /\ UNCHANGED <<engine, createdLog>>
    /\ UNCHANGED <<enableValidationLayers, gpus, procAddrLoaded, destroyedLog,
                   exitStatus, requested>>
    /\ CallsUnchanged

createSurface ==
    /\ pc = "createSurface"
    /\ Enter("createSurface")
    /\ \E result \in {"VK_SUCCESS", "VK_ERROR_INITIALIZATION_FAILED"} :
          IF engine.window # VK_NULL_HANDLE /\ result = "VK_SUCCESS"
          THEN /\ engine' = [engine EXCEPT !.surface = 1]
               /\ createdLog' = Append(createdLog, "surface")
               /\ Goto("selectPhysicalDevice")
          ELSE /\ Throw("failed to create window surface!")
               /\ UNCHANGED <<engine, createdLog>>
    /\ UNCHANGED <<enableValidationLayers, gpus, procAddrLoaded, destroyedLog,
                   exitStatus, requested>>
    /\ CallsUnchanged

selectPhysicalDevice ==
    /\ pc = "selectPhysicalDevice"
    /\ Enter("selectPhysicalDevice")
    /\ LET deviceCount == Len(gpus)
           chosen == SelectLoop(gpus, 1, engine.physicalDevice)
       IN  IF deviceCount = 0
           THEN /\ Throw("failed to find GPUs with Vulkan support!")
                /\ UNCHANGED engine
           ELSE /\ engine' = [engine EXCEPT !.physicalDevice = chosen]
                /\ IF chosen = VK_NULL_HANDLE
                   THEN Throw("failed to find a suitable GPU!")
                   ELSE Goto("createLogicalDevice")
    /\ UNCHANGED <<enableValidationLayers, gpus, procAddrLoaded, createdLog,
                   destroyedLog, exitStatus, requested>>
    /\ CallsUnchanged

(* std::set<uint32_t> iterates in ascending order *)
RECURSIVE Ascending(_)
Ascending(S) ==
    IF S = {} THEN <<>>
    ELSE LET m == CHOOSE x \in S : \A y \in S : x <= y
         IN  <<m>> \o Ascending(S \ {m})

Queue(family, index) == [queueFamilyIndex |-> family, queueIndex |-> index]

(* Variant: one request per role, the family indices not deduplicated. *)
deviceQueueCreateInfos_PerRole(indices) ==
    <<[queueFamilyIndex |-> indices.graphicsFamily.value, queueCount |-> 1],
      [queueFamilyIndex |-> indices.presentationFamily.value, queueCount |-> 1]>>

(* The queue-creation requests of createLogicalDevice: one per element of
   uniqueQueueFamilies, each for a single queue. *)
deviceQueueCreateInfos(indices) ==
    LET uniqueQueueFamilies == Ascending({indices.graphicsFamily.value,
                                          indices.presentationFamily.value})
    IN  [k \in 1..Len(uniqueQueueFamilies) |->
            [queueFamilyIndex |-> uniqueQueueFamilies[k], queueCount |-> 1]]

createLogicalDevice ==
    /\ pc = "createLogicalDevice"
    /\ Enter("createLogicalDevice")
    /\ LET indices == findQueueFamilies(gpus[engine.physicalDevice].queueFamilies)
           queueCreateInfos == deviceQueueCreateInfos(indices)
       IN  /\ requested' = [requested EXCEPT !.queueCreateInfos = queueCreateInfos]
           /\ \E result \in {"VK_SUCCESS", "VK_ERROR_DEVICE_LOST"} :
                 IF result # "VK_SUCCESS"
                 THEN /\ Throw("failed to create logical device!")
                      /\ UNCHANGED <<engine, createdLog>>
                 ELSE /\ engine' = [engine EXCEPT
                             !.device = 1,
                             !.graphicsQueue = Queue(indices.graphicsFamily.value, 0),
                             !.presentationQueue =
                                 Queue(indices.presentationFamily.value, 0)]
                      /\ createdLog' = Append(createdLog, "device")
                      /\ Goto("createSwapChain")
    /\ UNCHANGED <<enableValidationLayers, gpus, procAddrLoaded, destroyedLog, exitStatus>>
    /\ CallsUnchanged

(* Variant: exclusive sharing whatever the families. *)
swapSharing_Exclusive(indices) ==
    [imageSharingMode |-> "EXCLUSIVE", queueFamilyIndices |-> <<>>]

(* The sharing mode and family list of the swapchain request *)
swapSharing(indices) ==
    IF indices.graphicsFamily # indices.presentationFamily
    THEN [imageSharingMode |-> "CONCURRENT",
          queueFamilyIndices |-> <<indices.graphicsFamily.value,
                                   indices.presentationFamily.value>>]
    ELSE [imageSharingMode |-> "EXCLUSIVE", queueFamilyIndices |-> <<>>]

createSwapChain ==
    /\ pc = "createSwapChain"
    /\ Enter("createSwapChain")
    /\ LET swapChainSupport == querySwapChainSupport(gpus[engine.physicalDevice])
           surfaceFormat == chooseSwapSurfaceFormat(swapChainSupport.surfaceFormats)
           presentationMode ==
               chooseSwapPresentationMode(swapChainSupport.presentationModes)
           extent == chooseSwapExtent(swapChainSupport.surfaceCapabilities)
           imageCount == swapImageCount(swapChainSupport.surfaceCapabilities)
           indices == findQueueFamilies(gpus[engine.physicalDevice].queueFamilies)
           sharing == swapSharing(indices)
           createInfo ==
               [minImageCount |-> imageCount,
                imageFormat |-> surfaceFormat.format,
                imageColorSpace |-> surfaceFormat.colorSpace,
                imageExtent |-> extent,
                imageSharingMode |-> sharing.imageSharingMode,
                queueFamilyIndices |-> sharing.queueFamilyIndices,
                presentMode |-> presentationMode]
       IN  /\ requested' = [requested EXCEPT !.swapchainCreateInfos = <<createInfo>>]
           /\ \E result \in {"VK_SUCCESS", "VK_ERROR_SURFACE_LOST_KHR"} :
                 IF result # "VK_SUCCESS"
                 THEN /\ Throw("failed to create swap chain!")
                      /\ UNCHANGED <<engine, createdLog>>
                 ELSE \E realized \in {n \in 1..MaxImages : n >= imageCount} :
                      /\ engine' = [engine EXCEPT
                             !.swapChain = 1,
                             !.swapChainImages = [k \in 1..realized |-> k],
                             !.swapChainImageFormat = surfaceFormat.format,
                             !.swapChainExtent = extent]
                      /\ createdLog' = Append(createdLog, "swapChain")
                      /\ Goto("createImageViews")
    /\ UNCHANGED <<enableValidationLayers, gpus, procAddrLoaded, destroyedLog, exitStatus>>
    /\ CallsUnchanged

(* The vector is resized to one null handle per image; the views of the images
   before failAt are created; the view of image failAt fails (failAt past the
   last image: none fails). *)
createImageViews ==
    /\ pc = "createImageViews"
    /\ Enter("createImageViews")
    /\ LET size == Len(engine.swapChainImages)
       IN  \E failAt \in 1..(size + 1) :
              /\ engine' = [engine EXCEPT !.swapChainImageViews =
                     [k \in 1..size |-> IF k < failAt THEN k ELSE VK_NULL_HANDLE]]
              /\ createdLog' = createdLog \o Repeat("imageView", failAt - 1)
              /\ IF failAt <= size
                 THEN Throw("failed to create image views!")
                 ELSE Goto("mainLoop")
    /\ UNCHANGED <<enableValidationLayers, gpus, procAddrLoaded, destroyedLog,
                   exitStatus, requested>>
    /\ CallsUnchanged

(* Polls events until the window is asked to close *)
mainLoop ==
    /\ pc = "mainLoop"
    /\ Enter("mainLoop")
    /\ Goto("cleanup")
    /\ UNCHANGED <<enableValidationLayers, gpus, engine, procAddrLoaded, createdLog,
                   destroyedLog, exitStatus, requested>>
    /\ CallsUnchanged

(* Variant: the logical device is destroyed before the swapchain. *)
cleanupCalls_DeviceFirst(imageViews, validation, destroyLoaded) ==
    Repeat("imageView", Len(imageViews))
    \o <<"device", "swapChain">>
    \o (IF validation /\ destroyLoaded THEN <<"debugMessenger">> ELSE <<>>)
    \o <<"surface", "instance", "window">>

(* The destroy calls of cleanup, in order *)
cleanupCalls(imageViews, validation, destroyLoaded) ==
    Repeat("imageView", Len(imageViews))
    \o <<"swapChain", "device">>
    \o (IF validation /\ destroyLoaded THEN <<"debugMessenger">> ELSE <<>>)
    \o <<"surface", "instance", "window">>

cleanup ==
    /\ pc = "cleanup"
    /\ Enter("cleanup")
    /\ destroyedLog' = destroyedLog \o
           cleanupCalls(engine.swapChainImageViews, enableValidationLayers,
                        procAddrLoaded)
    /\ Goto("returned")
    /\ UNCHANGED <<enableValidationLayers, gpus, engine, procAddrLoaded, createdLog,
                   exitStatus, requested>>
    /\ CallsUnchanged

(* Variant: the handler returns EXIT_SUCCESS. *)
main_catch_ReturnsSuccess ==
    /\ pc = "catch"
    /\ pc' = "exited"
    /\ exitStatus' = EXIT_SUCCESS
    /\ UNCHANGED <<enableValidationLayers, gpus, engine, procAddrLoaded, createdLog,
                   destroyedLog, stagesRun, exception, requested>>
    /\ CallsUnchanged

main_catch ==
    /\ pc = "catch"
    /\ pc' = "exited"
    /\ exitStatus' = EXIT_FAILURE
    /\ UNCHANGED <<enableValidationLayers, gpus, engine, procAddrLoaded, createdLog,
                   destroyedLog, stagesRun, exception, requested>>
    /\ CallsUnchanged

main_return ==
    /\ pc = "returned"
    /\ pc' = "exited"
    /\ exitStatus' = EXIT_SUCCESS
    /\ UNCHANGED <<enableValidationLayers, gpus, engine, procAddrLoaded, createdLog,
                   destroyedLog, stagesRun, exception, requested>>
    /\ CallsUnchanged

----------------------------------------------------------------------------
(* Driver environments of the whole-pipeline specification *)
FamilyG == [graphics |-> TRUE, present |-> FALSE]
FamilyP == [graphics |-> FALSE, present |-> TRUE]
FamilyGP == [graphics |-> TRUE, present |-> TRUE]
WindowSized ==
    [currentExtent |-> Extent(WINDOW_WIDTH, WINDOW_HEIGHT),
     minImageExtent |-> Extent(WINDOW_WIDTH, WINDOW_HEIGHT),
     maxImageExtent |-> Extent(WINDOW_WIDTH, WINDOW_HEIGHT),
     minImageCount |-> 2, maxImageCount |-> 0]
Unsized ==
    [currentExtent |-> Extent(UINT32_MAX, UINT32_MAX),
     minImageExtent |-> Extent(1, 1),
     maxImageExtent |-> Extent(4096, 4096),
     minImageCount |-> 1, maxImageCount |-> 2]
GpuShared ==
    [queueFamilies |-> <<FamilyGP>>, extensions |-> <<"VK_KHR_swapchain">>,
     surfaceFormats |-> <<[format |-> "B8G8R8A8_UNORM", colorSpace |-> "SRGB_NONLINEAR"]>>,
     presentationModes |-> <<"FIFO">>, surfaceCapabilities |-> WindowSized]
GpuSplit ==
    [queueFamilies |-> <<FamilyG, FamilyP>>,
     extensions |-> <<"VK_KHR_maintenance1", "VK_KHR_swapchain">>,
     surfaceFormats |-> <<[format |-> "B8G8R8A8_UNORM", colorSpace |-> "SRGB_NONLINEAR"],
                          PreferredFormat>>,
     presentationModes |-> <<"FIFO", "MAILBOX">>, surfaceCapabilities |-> Unsized]
GpuComputeOnly ==
    [queueFamilies |-> <<[graphics |-> FALSE, present |-> FALSE]>>,
     extensions |-> <<>>, surfaceFormats |-> <<>>, presentationModes |-> <<>>,
     surfaceCapabilities |-> Unsized]
PipelineGpus ==
    {<<>>, <<GpuComputeOnly>>, <<GpuShared>>, <<GpuSplit>>,
     <<GpuComputeOnly, GpuSplit>>, <<GpuShared, GpuSplit>>}

Init ==
    /\ ProgramInit
    /\ pc = "initWindow"
    /\ enableValidationLayers \in BOOLEAN
    /\ gpus \in PipelineGpus
    /\ fn = ""
    /\ input = <<>>
    /\ output = <<>>

Next ==
    \/ initWindow
    \/ createInstance
    \/ createDebugMessenger
    \/ createSurface
    \/ selectPhysicalDevice
    \/ createLogicalDevice
    \/ createSwapChain
    \/ createImageViews
    \/ mainLoop
    \/ cleanup
    \/ main_catch
    \/ main_return

Spec == Init /\ [][Next]_vars

----------------------------------------------------------------------------
(* Device selection over every enumeration of up to MaxDevices devices: the
   process stands before selectPhysicalDevice, the earlier stages having
   succeeded. *)
SelectDevices ==
    [queueFamilies : SeqsUpTo(QueueFamily, 1),
     extensions : {<<>>, <<"VK_KHR_swapchain">>,
                   <<"VK_KHR_maintenance1", "VK_KHR_swapchain">>},
     surfaceFormats : {<<>>, <<PreferredFormat>>},
     presentationModes : {<<>>, <<"FIFO">>},
     surfaceCapabilities : {WindowSized}]

InitSelect ==
    /\ pc = "selectPhysicalDevice"
    /\ enableValidationLayers = TRUE
    /\ gpus \in SeqsUpTo(SelectDevices, MaxDevices)
    /\ engine = [EngineInit EXCEPT !.window = 1, !.instance = 1,
                                   !.debugMessenger = 1, !.surface = 1]
    /\ procAddrLoaded = TRUE
    /\ createdLog = <<"window", "instance", "debugMessenger", "surface">>
    /\ destroyedLog = <<>>
    /\ stagesRun = <<"initWindow", "createInstance", "createDebugMessenger",
                     "createSurface">>
    /\ exception = ""
    /\ exitStatus = NotExited
    /\ requested = NoRequests
    /\ fn = ""
    /\ input = <<>>
    /\ output = <<>>

NextSelect == selectPhysicalDevice

SpecSelect == InitSelect /\ [][NextSelect]_vars

----------------------------------------------------------------------------
(* Logical device and swapchain construction for every queue family list of
   up to MaxFamilies families that makes the device suitable: the process
   stands before createLogicalDevice, the one enumerated device selected. *)
BuildDevices ==
    {[GpuSplit EXCEPT !.queueFamilies = f, !.surfaceCapabilities = c] :
        f \in {q \in QueueFamilyLists : IsComplete(findQueueFamilies(q))},
        c \in {WindowSized, Unsized}}

InitBuild ==
    /\ pc = "createLogicalDevice"
    /\ enableValidationLayers = TRUE
    /\ \E d \in BuildDevices : gpus = <<d>>
    /\ engine = [EngineInit EXCEPT !.window = 1, !.instance = 1,
                                   !.debugMessenger = 1, !.surface = 1,
                                   !.physicalDevice = 1]
    /\ procAddrLoaded = TRUE
    /\ createdLog = <<"window", "instance", "debugMessenger", "surface">>
    /\ destroyedLog = <<>>
    /\ stagesRun = <<"initWindow", "createInstance", "createDebugMessenger",
                     "createSurface", "selectPhysicalDevice">>
    /\ exception = ""
    /\ exitStatus = NotExited
    /\ requested = NoRequests
    /\ fn = ""
    /\ input = <<>>
    /\ output = <<>>

NextBuild ==
    \/ createLogicalDevice
    \/ createSwapChain

SpecBuild == InitBuild /\ [][NextBuild]_vars

----------------------------------------------------------------------------
(* Indices of the families offering a capability, and what the scan of
   findQueueFamilies leaves: it stops at the first index by which a graphics
   family (at or before it) and a presentation family (strictly before it)
   have been seen, and until then a later family replaces an earlier one. *)
GraphicsIdx(fams) == {i \in 0..(Len(fams) - 1) : fams[i + 1].graphics}
PresentIdx(fams) == {i \in 0..(Len(fams) - 1) : fams[i + 1].present}
BothIdx(fams) == GraphicsIdx(fams) \cap PresentIdx(fams)
SetMin(S) == CHOOSE x \in S : \A y \in S : x <= y
SetMax(S) == CHOOSE x \in S : \A y \in S : y <= x
OptMax(S) == IF S = {} THEN nullopt ELSE Some(SetMax(S))
OptMin(S) == IF S = {} THEN nullopt ELSE Some(SetMin(S))
StopIndex(fams) ==
    IF GraphicsIdx(fams) = {} \/ PresentIdx(fams) = {} THEN Len(fams)
    ELSE Max2(SetMin(GraphicsIdx(fams)), SetMin(PresentIdx(fams)) + 1)

(* C2 as stated: graphicsFamily is the first index offering graphics and
   presentationFamily the first index supporting presentation; a recorded
   index is never replaced by a later one. *)
C2_FirstIndexRecorded ==
    Returned("findQueueFamilies") =>
        /\ output.graphicsFamily = OptMin(GraphicsIdx(input))
        /\ output.presentationFamily = OptMin(PresentIdx(input))

(* C2 amended: graphicsFamily is the highest graphics index at or before the
   index where the scan stops, presentationFamily the highest presentation
   index strictly before it (the whole list when the scan never stops early). *)
C2_LastBeforeStop ==
    Returned("findQueueFamilies") =>
        /\ output.graphicsFamily =
               OptMax({i \in GraphicsIdx(input) : i <= StopIndex(input)})
        /\ output.presentationFamily =
               OptMax({i \in PresentIdx(input) : i < StopIndex(input)})

(* C2 witness: a scan in which an earlier graphics index was replaced. *)
C2_Witness ==
    /\ Returned("findQueueFamilies")
    /\ IsComplete(output)
    /\ output.graphicsFamily.value > SetMin(GraphicsIdx(input))

(* C3: if some family offers both graphics and presentation, the result holds
   one index, of such a family, in both fields. *)
C3_SharedIndex ==
    (Returned("findQueueFamilies") /\ BothIdx(input) # {}) =>
        /\ IsComplete(output)
        /\ output.graphicsFamily.value = output.presentationFamily.value
        /\ output.graphicsFamily.value \in BothIdx(input)

----------------------------------------------------------------------------
(* Whole-pipeline claims *)
Reverse(s) == [k \in 1..Len(s) |-> s[Len(s) + 1 - k]]
Last(s) == s[Len(s)]
IsPrefix(s, t) == Len(s) <= Len(t) /\ \A k \in 1..Len(s) : s[k] = t[k]
IsVulkanResource(r) == r # "window"
VkCreated == SelectSeq(createdLog, IsVulkanResource)
VkDestroyed == SelectSeq(destroyedLog, IsVulkanResource)
RanToSuccess == pc = "exited" /\ exitStatus = EXIT_SUCCESS

QueueComplete(d) == IsComplete(findQueueFamilies(d.queueFamilies))
ExtensionsSupported(d) == \A k \in 1..Len(deviceExtensions) :
                              deviceExtensions[k] \in Range(d.extensions)
SwapchainAdequate(d) == Len(d.surfaceFormats) > 0 /\ Len(d.presentationModes) > 0
SuitableIdx == {k \in 1..Len(gpus) : /\ QueueComplete(gpus[k])
                                      /\ ExtensionsSupported(gpus[k])
                                      /\ SwapchainAdequate(gpus[k])}

(* C1: selectPhysicalDevice selects the first device of the enumeration that
   is queue-complete, supports the required extensions and has an adequate
   swapchain; it fails with "failed to find GPUs" on an empty enumeration and
   with "failed to find a suitable GPU" when no device is suitable. *)
C1_FirstSuitable ==
    pc # "selectPhysicalDevice" =>
        IF Len(gpus) = 0
        THEN /\ pc = "catch"
             /\ exception = "failed to find GPUs with Vulkan support!"
        ELSE IF SuitableIdx = {}
        THEN /\ pc = "catch"
             /\ exception = "failed to find a suitable GPU!"
        ELSE /\ pc = "createLogicalDevice"
             /\ exception = ""
             /\ engine.physicalDevice = SetMin(SuitableIdx)

(* C1 witness: two suitable devices enumerated, the first one selected. *)
C1_Witness ==
    /\ pc = "createLogicalDevice"
    /\ SuitableIdx = {1, 2}
    /\ engine.physicalDevice = 1

DiagnosticsSink == IF enableValidationLayers THEN <<"debugMessenger">> ELSE <<>>
ImageViews == Repeat("imageView", Len(engine.swapChainImageViews))

(* C4 as stated: on the success path the resources are destroyed in the exact
   reverse of the order in which initVulkan created them, and the diagnostics
   sink is destroyed if and only if it was created. *)
C4_ExactReverse ==
    RanToSuccess =>
        /\ VkDestroyed = Reverse(VkCreated)
        /\ "debugMessenger" \in Range(VkDestroyed) <=> "debugMessenger" \in Range(VkCreated)

(* C4 amended: creation is instance, diagnostics sink, surface, logical
   device, swapchain, image views; destruction is image views, swapchain,
   logical device, diagnostics sink, surface, instance: the reverse of
   creation except that the sink goes before the surface. The sink is
   destroyed if and only if it was created (diagnostics enabled). *)
C4_ReverseExceptSink ==
    RanToSuccess =>
        /\ VkCreated = <<"instance">> \o DiagnosticsSink
                       \o <<"surface", "device", "swapChain">> \o ImageViews
        /\ VkDestroyed = ImageViews \o <<"swapChain", "device">> \o DiagnosticsSink
                         \o <<"surface", "instance">>
        /\ "debugMessenger" \in Range(VkDestroyed) <=> "debugMessenger" \in Range(VkCreated)
        /\ "debugMessenger" \in Range(VkCreated) <=> enableValidationLayers

(* C4 witness: a successful run with diagnostics enabled and several views. *)
C4_Witness ==
    /\ RanToSuccess
    /\ enableValidationLayers
    /\ Len(engine.swapChainImageViews) > 1
    /\ Len(destroyedLog) = Len(createdLog)

ThrowingStage(what) ==
    CASE what = "validation layers requested, but not available!" -> "createInstance"
      [] what = "failed to create instance!" -> "createInstance"
      [] what = "failed to set up debug messenger!" -> "createDebugMessenger"
      [] what = "failed to create window surface!" -> "createSurface"
      [] what = "failed to find GPUs with Vulkan support!" -> "selectPhysicalDevice"
      [] what = "failed to find a suitable GPU!" -> "selectPhysicalDevice"
      [] what = "failed to create logical device!" -> "createLogicalDevice"
      [] what = "failed to create swap chain!" -> "createSwapChain"
      [] what = "failed to create image views!" -> "createImageViews"
      [] OTHER -> "none"

(* C5: once a stage has failed, the stages entered are the run order up to
   the failed stage (which is entered once and is the last one entered), the
   event loop and cleanup are not entered, nothing is destroyed, and the exit
   status is nonzero; the exit status is 0 only after the whole sequence of
   stages, event loop and teardown ran without a failure. *)
C5_FailFast ==
    /\ exception # "" =>
          /\ pc \in {"catch", "exited"}
          /\ IsPrefix(stagesRun, RunStages)
          /\ stagesRun # <<>>
          /\ Last(stagesRun) = ThrowingStage(exception)
          /\ Last(stagesRun) \in Range(InitStages)
          /\ destroyedLog = <<>>
          /\ exitStatus # EXIT_SUCCESS
          /\ pc = "exited" => exitStatus = EXIT_FAILURE
    /\ exitStatus = EXIT_SUCCESS =>
          /\ pc = "exited"
          /\ exception = ""
          /\ stagesRun = RunStages
          /\ Len(destroyedLog) = Len(createdLog)

(* C5 witness: the swapchain stage failed after the device was created; the
   process exited with EXIT_FAILURE. *)
C5_Witness ==
    /\ pc = "exited"
    /\ exitStatus = EXIT_FAILURE
    /\ exception = "failed to create swap chain!"
    /\ "device" \in Range(createdLog)

(* C6: when the creation of one image view fails, the pipeline is aborted, no
   view is attempted for the later images, and the pipeline state holds no
   image-view handle created for the images before the failing one. *)
C6_NoPartialViews ==
    exception = "failed to create image views!" =>
        /\ pc \in {"catch", "exited"}
        /\ Last(stagesRun) = "createImageViews"
        /\ \A k \in 1..Len(engine.swapChainImageViews) :
               engine.swapChainImageViews[k] = VK_NULL_HANDLE

----------------------------------------------------------------------------
Clamp(lo, hi, t) == IF t < lo THEN lo ELSE IF t > hi THEN hi ELSE t
ClampedWindow(capabilities) ==
    Extent(Clamp(capabilities.minImageExtent.width,
                 capabilities.maxImageExtent.width, WINDOW_WIDTH),
           Clamp(capabilities.minImageExtent.height,
                 capabilities.maxImageExtent.height, WINDOW_HEIGHT))

(* C7 as stated: currentExtent is returned verbatim unless it is the pair
   (UINT32_MAX, UINT32_MAX); for that pair the window size clamped per axis
   into the extent bounds is returned. *)
C7_SentinelPair ==
    Returned("chooseSwapExtent") =>
        IF input.currentExtent # Extent(UINT32_MAX, UINT32_MAX)
        THEN output = input.currentExtent
        ELSE output = ClampedWindow(input)

(* C7 amended: currentExtent is returned verbatim when its width is not
   UINT32_MAX (the height is not examined); when the width is UINT32_MAX the
   window size clamped per axis into the extent bounds is returned. *)
C7_SentinelWidth ==
    Returned("chooseSwapExtent") =>
        IF input.currentExtent.width # UINT32_MAX
        THEN output = input.currentExtent
        ELSE output = ClampedWindow(input)

(* C7 witness: the sentinel pair, with a window width below the minimum
   raised to it and a height inside the bounds kept. *)
C7_Witness ==
    /\ Returned("chooseSwapExtent")
    /\ input.currentExtent = Extent(UINT32_MAX, UINT32_MAX)
    /\ input.minImageExtent.width > WINDOW_WIDTH
    /\ output = Extent(input.minImageExtent.width, WINDOW_HEIGHT)

(* C8: the requested image count is minImageCount + 1, reduced to a nonzero
   maxImageCount that it exceeds; it is never below minImageCount and never
   above a nonzero maxImageCount. *)
C8_ImageCount ==
    Returned("swapImageCount") =>
        /\ output = IF /\ input.maxImageCount # 0
                       /\ input.minImageCount + 1 > input.maxImageCount
                    THEN input.maxImageCount
                    ELSE input.minImageCount + 1
        /\ output >= input.minImageCount
        /\ input.maxImageCount # 0 => output <= input.maxImageCount

(* C9: the preferred pair is returned whenever the list holds it, the element
   at index 0 otherwise, and the result is always an element of the list. *)
C9_FormatChoice ==
    Returned("chooseSwapSurfaceFormat") =>
        /\ PreferredFormat \in Range(input) => output = PreferredFormat
        /\ PreferredFormat \notin Range(input) => output = input[1]
        /\ output \in Range(input)

(* C9 witness: the preferred pair picked from a position after index 0. *)
C9_Witness ==
    /\ Returned("chooseSwapSurfaceFormat")
    /\ input[1] # PreferredFormat
    /\ input[1].format = PreferredFormat.format
    /\ output = PreferredFormat

(* C10: mailbox is returned whenever the list holds it, FIFO otherwise, also
   for the empty list and for lists that do not hold FIFO. *)
C10_ModeChoice ==
    Returned("chooseSwapPresentationMode") =>
        /\ "MAILBOX" \in Range(input) => output = "MAILBOX"
        /\ "MAILBOX" \notin Range(input) => output = "FIFO"

(* C10 witness: FIFO returned for a non-empty list that does not hold it. *)
C10_Witness ==
    /\ Returned("chooseSwapPresentationMode")
    /\ input # <<>>
    /\ "FIFO" \notin Range(input)
    /\ output = "FIFO"

----------------------------------------------------------------------------
SelectedIndices == findQueueFamilies(gpus[engine.physicalDevice].queueFamilies)
SwapchainRequested == Len(requested.swapchainCreateInfos) > 0
SwapchainRequest == requested.swapchainCreateInfos[1]

(* C11: when the graphics and presentation family indices of the selected
   device differ, the swapchain is requested with concurrent sharing listing
   exactly those two indices; when they are identical, with exclusive sharing
   and an empty family index list. *)
C11_SharingMode ==
    SwapchainRequested =>
        LET g == SelectedIndices.graphicsFamily.value
            p == SelectedIndices.presentationFamily.value
        IN  /\ g = engine.graphicsQueue.queueFamilyIndex
            /\ p = engine.presentationQueue.queueFamilyIndex
            /\ g # p => /\ SwapchainRequest.imageSharingMode = "CONCURRENT"
                        /\ Len(SwapchainRequest.queueFamilyIndices) = 2
                        /\ SwapchainRequest.queueFamilyIndices = <<g, p>>
            /\ g = p => /\ SwapchainRequest.imageSharingMode = "EXCLUSIVE"
                        /\ SwapchainRequest.queueFamilyIndices = <<>>

(* C11 witness: a swapchain created with concurrent sharing over two
   different families. *)
C11_Witness ==
    /\ pc = "createImageViews"
    /\ SwapchainRequested
    /\ SwapchainRequest.imageSharingMode = "CONCURRENT"
    /\ SwapchainRequest.queueFamilyIndices[1] # SwapchainRequest.queueFamilyIndices[2]

DeviceRequested == "createLogicalDevice" \in Range(stagesRun)
DeviceCreated == "device" \in Range(createdLog)

(* C12: createLogicalDevice issues exactly one queue-creation request per
   distinct family index among the graphics and presentation families of the
   selected device, each for a single queue: one request when the indices
   coincide, two with different family indices when they differ; the stored
   queue handles are the queues (family index, slot 0), the same queue when
   the indices coincide. *)
C12_QueueRequests ==
    DeviceRequested =>
        LET g == SelectedIndices.graphicsFamily.value
            p == SelectedIndices.presentationFamily.value
            infos == requested.queueCreateInfos
        IN  /\ Len(infos) = Cardinality({g, p})
            /\ {infos[k].queueFamilyIndex : k \in 1..Len(infos)} = {g, p}
            /\ \A k \in 1..Len(infos) : infos[k].queueCount = 1
            /\ \A j, k \in 1..Len(infos) :
                   j # k => infos[j].queueFamilyIndex # infos[k].queueFamilyIndex
            /\ g = p => Len(infos) = 1
            /\ g # p => Len(infos) = 2
            /\ DeviceCreated =>
                  /\ engine.graphicsQueue = [queueFamilyIndex |-> g, queueIndex |-> 0]
                  /\ engine.presentationQueue = [queueFamilyIndex |-> p, queueIndex |-> 0]
                  /\ g = p => engine.graphicsQueue = engine.presentationQueue

(* C12 witness: a device created from a single request, both stored handles
   being the same queue. *)
C12_Witness ==
    /\ DeviceCreated
    /\ Len(requested.queueCreateInfos) = 1
    /\ engine.graphicsQueue = engine.presentationQueue
    /\ engine.graphicsQueue.queueIndex = 0

(* C13: the result of findQueueFamilies is complete if and only if the list
   holds a family with graphics capability and a family with presentation
   support; the early exit misses no capability that some family offers, and
   every recorded index is the index of a family of the list that offers the
   recorded capability. *)
C13_CompleteIffOffered ==
    Returned("findQueueFamilies") =>
        /\ IsComplete(output) <=>
               (GraphicsIdx(input) # {} /\ PresentIdx(input) # {})
        /\ output.graphicsFamily.has_value <=> GraphicsIdx(input) # {}
        /\ output.presentationFamily.has_value <=> PresentIdx(input) # {}
        /\ output.graphicsFamily.has_value =>
               output.graphicsFamily.value \in GraphicsIdx(input)
        /\ output.presentationFamily.has_value =>
               output.presentationFamily.value \in PresentIdx(input)

(* C13 witness: the scan left early, complete, with families after the stop
   index unexamined. *)
C13_Witness ==
    /\ Returned("findQueueFamilies")
    /\ IsComplete(output)
    /\ StopIndex(input) < Len(input) - 1
    /\ output.graphicsFamily.value # output.presentationFamily.value

====
